---- MODULE Spec2Model ----
(***************************************************************************)
(* Ingestion-and-enrichment pipeline of the Telegram medical warehouse:    *)
(*   scripts/load_raw_to_pg.py  the raw loader (JSON files -> Postgres)    *)
(*   scripts/pipeline.py        the Dagster job of four retried ops        *)
(*   src/yolo_detect.py         the detection classifier                   *)
(***************************************************************************)
EXTENDS Integers, Sequences, FiniteSets, TLC

(***************************************************************************)
(* Bounds of the model.                                                    *)
(***************************************************************************)
\* files one load run visits when the directory is drawn step by step
NumFiles == 1
\* records of one input file drawn step by step
MaxRecs == 2
\* files of a listed directory, and records of one of its files
NumListed == 2
MaxListedRecs == 2
\* the same for the directory two overlapping runs read
NumShared == 2
MaxSharedRecs == 3
\* the same for the directory a run and a second run read
NumRerun == 1
MaxRerunRecs == 2
\* launches of the job
MaxLaunches == 2
\* detections of one image
MaxDets == 3
\* images of the listing the enrichment script walks, and detections of one
NumImages == 2
MaxHits == 2

(***************************************************************************)
(* State.                                                                  *)
(*   table     committed rows of raw.telegram_messages                     *)
(*   clock     the database's current time                                 *)
(*   files     the data directory as DATA_ROOT.rglob lists it (when the    *)
(*             run reads a listed directory)                               *)
(* and per load run r (a process running main()):                          *)
(*   conn[r]      the connection's transaction: status, the rows it has    *)
(*                inserted and not committed, its start time               *)
(*   pc[r]        position in main()                                       *)
(*   fileIdx[r]   index of the file the for loop is at                     *)
(*   messages[r]  the records of the current file not yet processed        *)
(*   more[r]      when the directory is drawn step by step: how many       *)
(*                further records the current file may turn out to hold    *)
(*   inserted[r], skipped[r]  the two totals                               *)
(*   calls[r]     the last two cur.execute calls: parameters, outcome and  *)
(*                the exception line 106 prints                            *)
(* The Dagster job:                                                        *)
(*   job       the current run of medical_warehouse_job: its number, its   *)
(*             state, and per op the step's status and the number of       *)
(*             times the op's function has been invoked                    *)
(* The classifier:                                                         *)
(*   image     the detections the model returns for the image              *)
(*   result    what detect_and_classify returned                           *)
(* The enrichment script:                                                  *)
(*   enrich    the run of yolo_detect.py: its position, the images it has   *)
(*             been through, the list data, and the CSV file it wrote      *)
(***************************************************************************)
VARIABLES table, clock, files, conn, pc, fileIdx, messages, more, inserted, skipped, calls
VARIABLES job
VARIABLES image, result
VARIABLES enrich

loadVars == <<table, clock, files, conn, pc, fileIdx, messages, more, inserted, skipped, calls>>
jobVars == <<job>>
classifyVars == <<image, result>>
enrichVars == <<enrich>>
vars == <<loadVars, jobVars, classifyVars, enrichVars>>

(***************************************************************************)
(* JSON input.  A dict is a TLA+ record; a key that is absent (or null) is *)
(* a field the record does not have, so dict.get is Get below.             *)
(***************************************************************************)
None == "None"
Ids == {"m1", "m2"}
Chans == {"chA", "chB"}
GoodDate == "2024-01-05T10:00:00+00:00"
BadDate == "not-a-date"
\* a nested JSON object as the value of a key: a Python dict
JsonObject == "{...}"

\* msg.get(k): the value, or None when the key is absent
Get(d, k) == IF k \in DOMAIN d THEN d[k] ELSE None

\* well-formed messages: two messages of one channel, a message of another
\* channel with the id of the first, and a second version of the first
KeyedDicts ==
    {d \in [message_id : Ids, channel_name : Chans, message_text : {"t1"}] :
        d.message_id = "m1" \/ d.channel_name = "chA"}
    \cup {[message_id |-> "m1", channel_name |-> "chA", message_text |-> "t2",
           views |-> 7, has_media |-> TRUE, image_path |-> "img/1.jpg",
           message_date |-> GoodDate]}

\* messages without one of the two key fields
UnkeyedDicts ==
    { [channel_name |-> "chA", message_text |-> "t1"],
      [message_id |-> "m1", message_text |-> "t1"] }

\* a message whose date the server cannot read as a timestamp
BadDateDict ==
    [message_id |-> "m2", channel_name |-> "chA", message_text |-> "t1",
     message_date |-> BadDate]

\* a message whose text is a nested object, which the driver cannot adapt
NestedTextDict ==
    [message_id |-> "m1", channel_name |-> "chB", message_text |-> JsonObject]

Dicts == KeyedDicts \cup UnkeyedDicts \cup {BadDateDict, NestedTextDict}

\* an element of the JSON list: a dict, or a value that is no dict ("oops")
Elem(d) == [isdict |-> TRUE, d |-> d]
NotADict == [isdict |-> FALSE]
Elements == {Elem(d) : d \in Dicts} \cup {NotADict}

RECURSIVE SeqsUpTo(_, _)
SeqsUpTo(S, n) ==
    IF n = 0 THEN {<<>>}
    ELSE LET shorter == SeqsUpTo(S, n - 1)
         IN  shorter \cup {Append(s, e) : s \in {t \in shorter : Len(t) = n - 1}, e \in S}

\* a file of the data directory: its name may be the manifest's, its content
\* may be no JSON, a JSON list, or a single JSON value
File(manifest, valid, islist, items) ==
    [manifest |-> manifest, valid |-> valid, islist |-> islist, items |-> items]

FilesOver(E, n) ==
    {File(TRUE, TRUE, TRUE, <<>>), File(FALSE, FALSE, TRUE, <<>>)}
    \cup {File(FALSE, TRUE, TRUE, s) : s \in SeqsUpTo(E, n)}
    \cup {File(FALSE, TRUE, FALSE, <<e>>) : e \in E}

(***************************************************************************)
(* The table: CREATE TABLE raw.telegram_messages, and the INSERT.          *)
(***************************************************************************)
Runs == DOMAIN pc

\* lines 76-84: JSON keys -> the INSERT's parameters
Params(d) ==
    [message_id       |-> Get(d, "message_id"),
     channel_username |-> Get(d, "channel_name"),
     channel_title    |-> Get(d, "channel_title"),
     date             |-> Get(d, "message_date"),
     text             |-> Get(d, "message_text"),
     views            |-> IF "views" \in DOMAIN d THEN d.views ELSE 0,
     forwards         |-> IF "forwards" \in DOMAIN d THEN d.forwards ELSE 0,
     has_media        |-> IF "has_media" \in DOMAIN d THEN d.has_media ELSE FALSE,
     image_path       |-> Get(d, "image_path")]

\* the stored row: the nine columns and loaded_at DEFAULT CURRENT_TIMESTAMP,
\* which is the start time of the inserting transaction
Row(p, t) ==
    [message_id |-> p.message_id, channel_username |-> p.channel_username,
     channel_title |-> p.channel_title, date |-> p.date, text |-> p.text,
     views |-> p.views, forwards |-> p.forwards, has_media |-> p.has_media,
     image_path |-> p.image_path, loaded_at |-> t]

\* PRIMARY KEY (message_id, channel_username)
Key(x) == <<x.message_id, x.channel_username>>
Keys(rows) == {Key(x) : x \in rows}

\* the driver turns str, int, bool and None into SQL; a dict it cannot adapt
Adaptable(p) == p.text # JsonObject

\* the server's checks of the values: the key columns are NOT NULL (PRIMARY
\* KEY), date is TIMESTAMP WITH TIME ZONE
ServerAccepts(p) ==
    /\ p.message_id # None
    /\ p.channel_username # None
    /\ p.date \in {None, GoodDate}

\* a conflict check that sees the rows of its own transaction only
KeyTakenInTxnOnly(r, p) == Key(p) \in Keys(conn[r].pending)

\* ON CONFLICT (message_id, channel_username): the rows the statement sees
KeyTaken(r, p) == Key(p) \in Keys(table \cup conn[r].pending)

\* another transaction has inserted the key and not yet ended: the INSERT waits
HeldByOther(r, p) == \E q \in Runs \ {r} : Key(p) \in Keys(conn[q].pending)

IdleConn == [status |-> "idle", pending |-> {}, tstart |-> 0]

(***************************************************************************)
(* main(), lines 30-123.                                                   *)
(***************************************************************************)
\* the call appended to the last two calls
Logged(r, p, res, err) ==
    LET all == Append(calls[r], [p |-> p, result |-> res, error |-> err])
    IN  IF Len(all) > 2 THEN Tail(all) ELSE all

\* lines 31-55: connect, CREATE ... IF NOT EXISTS, commit, zero the totals
Start(r) ==
    /\ pc[r] = "start"
    /\ pc' = [pc EXCEPT ![r] = "loop"]
    /\ conn' = [conn EXCEPT ![r] = IdleConn]
    /\ inserted' = [inserted EXCEPT ![r] = 0]
    /\ skipped' = [skipped EXCEPT ![r] = 0]
    /\ UNCHANGED <<table, clock, files, fileIdx, messages, more, calls>>

\* line 70: a list is taken as it is, any other value as a list of one
Messages(f) == IF f.islist THEN f.items ELSE <<f.items[1]>>

\* lines 59-70 and 112-113: the next file of the loop; the manifest is passed
\* over, a file that is no JSON is skipped, any other is loaded
Visit(r, f, m) ==
    /\ pc[r] = "loop"
    /\ fileIdx' = [fileIdx EXCEPT ![r] = IF f.manifest \/ ~f.valid THEN @ + 1 ELSE @]
    /\ pc' = [pc EXCEPT ![r] = IF f.manifest \/ ~f.valid THEN "loop" ELSE "recs"]
    /\ messages' = [messages EXCEPT ![r] = IF f.manifest \/ ~f.valid THEN <<>> ELSE Messages(f)]
    /\ more' = [more EXCEPT ![r] = IF f.manifest \/ ~f.valid THEN 0 ELSE m]
    /\ UNCHANGED <<table, clock, files, conn, inserted, skipped, calls>>

\* lines 76, 105-106, 114-115: msg.get on a value that is no dict raises in
\* the try and again in its handler, which ends the file without a commit
RecordNotDict(r) ==
    /\ pc[r] = "recs" /\ messages[r] # <<>>
    /\ ~Head(messages[r]).isdict
    /\ pc' = [pc EXCEPT ![r] = "loop"]
    /\ fileIdx' = [fileIdx EXCEPT ![r] = @ + 1]
    /\ messages' = [messages EXCEPT ![r] = <<>>]
    /\ more' = [more EXCEPT ![r] = 0]
    /\ UNCHANGED <<table, clock, files, conn, inserted, skipped, calls>>

\* the key check testing message_id alone
MissingKeyIdOnly(p) == p.message_id = None

\* line 86
MissingKey(p) == p.message_id = None \/ p.channel_username = None

\* lines 86-87: continue
SkipUnkeyed(r) ==
    /\ pc[r] = "recs" /\ messages[r] # <<>>
    /\ Head(messages[r]).isdict
    /\ MissingKey(Params(Head(messages[r]).d))
    /\ messages' = [messages EXCEPT ![r] = Tail(@)]
    /\ UNCHANGED <<table, clock, files, conn, pc, fileIdx, more, inserted, skipped, calls>>

\* the INSERT has to wait for another transaction to end
Blocked(r) ==
    /\ pc[r] = "recs" /\ messages[r] # <<>>
    /\ Head(messages[r]).isdict
    /\ LET p == Params(Head(messages[r]).d)
       IN  /\ ~MissingKey(p)
           /\ Adaptable(p)
           /\ conn[r].status # "inerror"
           /\ ServerAccepts(p)
           /\ ~KeyTaken(r, p)
           /\ HeldByOther(r, p)

\* the INSERT without its ON CONFLICT clause: a taken key is a unique violation
OutcomeNoOnConflict(r, p) ==
    IF ~Adaptable(p) THEN "cannot_adapt"
    ELSE IF conn[r].status = "inerror" THEN "in_failed_transaction"
    ELSE IF ~ServerAccepts(p) \/ KeyTaken(r, p) THEN "data_error"
    ELSE "insert"

\* the outcome of cur.execute(INSERT ... ON CONFLICT DO NOTHING): the driver
\* adapts the parameters, the server refuses any statement of a transaction
\* that has failed, checks the values, then the key
Outcome(r, p) ==
    IF ~Adaptable(p) THEN "cannot_adapt"
    ELSE IF conn[r].status = "inerror" THEN "in_failed_transaction"
    ELSE IF ~ServerAccepts(p) THEN "data_error"
    ELSE IF KeyTaken(r, p) THEN "conflict"
    ELSE "insert"

\* lines 89-107: the INSERT, then rowcount > 0 counts as inserted, rowcount 0
\* and any exception as skipped.  A statement the server fails leaves the
\* transaction failed and undoes what it had inserted.
ExecInsert(r) ==
    /\ pc[r] = "recs" /\ messages[r] # <<>>
    /\ Head(messages[r]).isdict
    /\ ~MissingKey(Params(Head(messages[r]).d))
    /\ ~Blocked(r)
    /\ LET p == Params(Head(messages[r]).d)
           o == Outcome(r, p)
           sent == o \in {"data_error", "conflict", "insert"}
           begins == sent /\ conn[r].status = "idle"
           t == IF begins THEN clock ELSE conn[r].tstart
       IN  /\ clock' = IF begins THEN clock + 1 ELSE clock
           /\ conn' = [conn EXCEPT ![r] =
                  CASE o = "insert" ->
                         [status |-> "intrans", pending |-> @.pending \cup {Row(p, t)}, tstart |-> t]
                    [] o = "conflict" ->
                         [status |-> "intrans", pending |-> @.pending, tstart |-> t]
                    [] o = "data_error" ->
                         [status |-> "inerror", pending |-> {}, tstart |-> t]
                    [] OTHER -> @]
           /\ inserted' = [inserted EXCEPT ![r] = IF o = "insert" THEN @ + 1 ELSE @]
           /\ skipped' = [skipped EXCEPT ![r] = IF o = "insert" THEN @ ELSE @ + 1]
           /\ calls' = [calls EXCEPT ![r] =
                  CASE o = "insert" -> Logged(r, p, "inserted", "")
                    [] o = "conflict" -> Logged(r, p, "duplicate", "")
                    [] OTHER -> Logged(r, p, "error", o)]
    /\ messages' = [messages EXCEPT ![r] = Tail(@)]
    /\ UNCHANGED <<table, files, pc, fileIdx, more>>

\* two INSERTs wait for each other: the server ends the deadlock by failing
\* one of them, which lines 105-107 count as skipped
DeadlockAbort(r) ==
    /\ Blocked(r)
    /\ \E q \in Runs \ {r} :
          /\ Blocked(q)
          /\ Key(Params(Head(messages[r]).d)) \in Keys(conn[q].pending)
          /\ Key(Params(Head(messages[q]).d)) \in Keys(conn[r].pending)
    /\ conn' = [conn EXCEPT ![r] = [status |-> "inerror", pending |-> {}, tstart |-> @.tstart]]
    /\ skipped' = [skipped EXCEPT ![r] = @ + 1]
    /\ calls' = [calls EXCEPT ![r] =
           Logged(r, Params(Head(messages[r]).d), "error", "deadlock_detected")]
    /\ messages' = [messages EXCEPT ![r] = Tail(@)]
    /\ UNCHANGED <<table, clock, files, pc, fileIdx, more, inserted>>

\* line 110: conn.commit() after the file's records; COMMIT of a failed
\* transaction is a rollback
CommitFile(r) ==
    /\ pc[r] = "recs" /\ messages[r] = <<>>
    /\ table' = IF conn[r].status = "intrans" THEN table \cup conn[r].pending ELSE table
    /\ conn' = [conn EXCEPT ![r] = IdleConn]
    /\ pc' = [pc EXCEPT ![r] = "loop"]
    /\ fileIdx' = [fileIdx EXCEPT ![r] = @ + 1]
    /\ more' = [more EXCEPT ![r] = 0]
    /\ UNCHANGED <<clock, files, messages, inserted, skipped, calls>>

\* lines 117-123: close without a commit, then the totals
Finish(r) ==
    /\ pc[r] = "loop"
    /\ conn' = [conn EXCEPT ![r] = [status |-> "closed", pending |-> {}, tstart |-> @.tstart]]
    /\ pc' = [pc EXCEPT ![r] = "done"]
    /\ UNCHANGED <<table, clock, files, fileIdx, messages, more, inserted, skipped, calls>>

\* the loop over a directory whose files are drawn as the run reaches them,
\* and whose lists are drawn record by record
VisitAny(r) ==
    /\ fileIdx[r] <= NumFiles
    /\ \E f \in FilesOver(Elements, 0) : Visit(r, f, IF f.islist THEN MaxRecs ELSE 0)

NextRecord(r) ==
    /\ pc[r] = "recs" /\ messages[r] = <<>> /\ more[r] > 0
    /\ \E e \in Elements : messages' = [messages EXCEPT ![r] = <<e>>]
    /\ more' = [more EXCEPT ![r] = @ - 1]
    /\ UNCHANGED <<table, clock, files, conn, pc, fileIdx, inserted, skipped, calls>>

\* the loop over the listed directory
VisitListed(r) == fileIdx[r] <= Len(files) /\ Visit(r, files[fileIdx[r]], 0)
FinishListed(r) == fileIdx[r] > Len(files) /\ Finish(r)

\* the rows a store may hold before a run: loaded at time 0
PriorRow(id, ch, txt) ==
    Row(Params([message_id |-> id, channel_name |-> ch, message_text |-> txt]), 0)
PriorTables == {{}, {PriorRow("m1", "chA", "t0")}}

InitRuns(R) ==
    /\ clock = 1
    /\ conn = [r \in R |-> IdleConn]
    /\ pc = [r \in R |-> "start"]
    /\ fileIdx = [r \in R |-> 1]
    /\ messages = [r \in R |-> <<>>]
    /\ more = [r \in R |-> 0]
    /\ inserted = [r \in R |-> 0]
    /\ skipped = [r \in R |-> 0]
    /\ calls = [r \in R |-> <<>>]

(***************************************************************************)
(* scripts/pipeline.py: the Dagster job medical_warehouse_job.             *)
(***************************************************************************)
\* the four ops in the order the graph chains them (lines 57-60)
OpOrder == <<"scrape_telegram_data", "load_raw_to_postgres",
             "run_dbt_transformations", "run_yolo_enrichment">>
Ops == {OpOrder[i] : i \in 1..Len(OpOrder)}
IndexOf(op) == CHOOSE i \in 1..Len(OpOrder) : OpOrder[i] = op

\* each op takes the result of the one before it as upstream_status
Upstream(op) == IF IndexOf(op) = 1 THEN {} ELSE {OpOrder[IndexOf(op) - 1]}

\* standard_retry = RetryPolicy(max_retries=3, delay=60)
MaxRetries == 3

NewRun(n) == [run |-> n,
              state |-> "not_started",
              status |-> [op \in Ops |-> "pending"],
              invoked |-> [op \in Ops |-> 0]]

\* the run is launched (by daily_medical_schedule or by hand)
Launch ==
    /\ job.state = "not_started"
    /\ job' = [job EXCEPT !.state = "started"]

\* a step started as soon as its upstream step has ended, failed or not
ReadyAfterAnyEnd(op) ==
    /\ job.state = "started"
    /\ job.status[op] = "pending"
    /\ \A u \in Upstream(op) : job.status[u] \in {"succeeded", "failed"}

\* a graph without dependencies: every step may start when the run starts
ReadyAtOnce(op) ==
    /\ job.state = "started"
    /\ job.status[op] = "pending"

\* a step is executed once its upstream step has succeeded
Ready(op) ==
    /\ job.state = "started"
    /\ job.status[op] = "pending"
    /\ \A u \in Upstream(op) : job.status[u] = "succeeded"

\* the first invocation of the op's function
StartStep(op) ==
    /\ Ready(op)
    /\ job' = [job EXCEPT !.status[op] = "running", !.invoked[op] = @ + 1]

\* a runner that takes a return for a success on the first invocation only
StepSucceedsFirstOnly(op) ==
    /\ job.status[op] = "running"
    /\ job' = [job EXCEPT !.status[op] =
                  IF job.invoked[op] = 1 THEN "succeeded" ELSE "failed"]

\* subprocess.run(..., check=True) returns: exit status 0
StepSucceeds(op) ==
    /\ job.status[op] = "running"
    /\ job' = [job EXCEPT !.status[op] = "succeeded"]

\* a policy that allows max_retries invocations in all
RetriesLeftCountingFirst(op) == job.invoked[op] < MaxRetries

\* max_retries retries may follow the first invocation
RetriesLeft(op) == job.invoked[op] - 1 < MaxRetries

\* subprocess.run raises (non-zero exit, or the program is missing): the step
\* is retried after the delay while the policy allows, and fails otherwise
StepRaises(op) ==
    /\ job.status[op] = "running"
    /\ job' = [job EXCEPT !.status[op] =
                  IF RetriesLeft(op) THEN "up_for_retry" ELSE "failed"]

\* the retry, delay seconds later: the function is invoked again
RetryStep(op) ==
    /\ job.status[op] = "up_for_retry"
    /\ job' = [job EXCEPT !.status[op] = "running", !.invoked[op] = @ + 1]

\* a step downstream of a failed or skipped step is not executed
SkipStep(op) ==
    /\ job.state = "started"
    /\ job.status[op] = "pending"
    /\ \E u \in Upstream(op) : job.status[u] \in {"failed", "skipped"}
    /\ job' = [job EXCEPT !.status[op] = "skipped"]

\* no step is left to execute: the run succeeds if every step did
EndRun ==
    /\ job.state = "started"
    /\ \A op \in Ops : job.status[op] \in {"succeeded", "failed", "skipped"}
    /\ job' = [job EXCEPT !.state =
                  IF \A op \in Ops : job.status[op] = "succeeded"
                  THEN "success" ELSE "failure"]

\* a trigger that resumes the run that ended, keeping what its steps did
RetriggerResuming ==
    /\ job.state \in {"success", "failure"}
    /\ job.run < MaxLaunches
    /\ job' = [job EXCEPT !.run = @ + 1, !.state = "not_started"]

\* lines 63-69: the schedule (or a manual trigger) starts the job anew
Retrigger ==
    /\ job.state \in {"success", "failure"}
    /\ job.run < MaxLaunches
    /\ job' = NewRun(job.run + 1)

(***************************************************************************)
(* src/yolo_detect.py: detect_and_classify.                                *)
(***************************************************************************)
\* YOLOv8's classes (model.names): 0 person, 39 bottle, 41 cup; 2 car and
\* 56 chair stand for the others
ClassNames == [c \in {0, 2, 39, 41, 56} |->
                 CASE c = 0 -> "person" [] c = 39 -> "bottle" [] c = 41 -> "cup"
                   [] c = 2 -> "car" [] OTHER -> "chair"]
ClassIds == DOMAIN ClassNames

\* one row of results[0].boxes.data: the box, the confidence (in percent),
\* the class id
Detections == [box : {<<0, 0, 10, 10>>}, conf : {90}, cls : ClassIds]

\* the label decided by the first detection of a known class
ClassifyByFirst(detections) ==
    LET known == SelectSeq(detections, LAMBDA d : d.cls \in {0, 39, 41})
    IN  IF known = <<>> THEN "other"
        ELSE IF known[1].cls = 0
             THEN (IF \E i \in 1..Len(known) : known[i].cls \in {39, 41}
                   THEN "promotional" ELSE "lifestyle")
             ELSE "product_display"

\* has_product tested before the conjunction
ClassifyProductFirst(detections) ==
    LET has_person == \E i \in 1..Len(detections) : detections[i].cls = 0
        has_product == \E i \in 1..Len(detections) : detections[i].cls \in {39, 41}
    IN  IF has_product THEN "product_display"
        ELSE IF has_person /\ has_product THEN "promotional"
        ELSE IF has_person THEN "lifestyle"
        ELSE "other"

\* lines 13-24
Classify(detections) ==
    LET has_person == \E i \in 1..Len(detections) : detections[i].cls = 0
        has_product == \E i \in 1..Len(detections) : detections[i].cls \in {39, 41}
    IN  IF has_person /\ has_product THEN "promotional"
        ELSE IF has_product THEN "product_display"
        ELSE IF has_person THEN "lifestyle"
        ELSE "other"

NoResult == [called |-> FALSE, label |-> "", detections |-> <<>>]

\* lines 8-24: the model's detections for the image, labelled and returned
DetectAndClassify ==
    /\ ~result.called
    /\ result' = [called |-> TRUE, label |-> Classify(image), detections |-> image]
    /\ UNCHANGED image

\* line 36 for the next image of the listing
NextImage ==
    /\ result.called
    /\ image' \in SeqsUpTo(Detections, MaxDets)
    /\ result' = NoResult

(***************************************************************************)
(* src/yolo_detect.py, lines 26-47: the script that walks the images.      *)
(***************************************************************************)
\* the classes the walked images show: person, bottle, chair
HitClasses == {0, 39, 56}
Hits == [box : {<<0, 0, 10, 10>>}, conf : {90}, cls : HitClasses]

\* what model(image_path) does for an image: it returns detections, or it
\* raises (a file that is no image, a file that cannot be read)
ModelRaises == [raises |-> TRUE, hits |-> <<>>]
ModelReturns(h) == [raises |-> FALSE, hits |-> h]
ModelOutcomes == {ModelRaises} \cup {ModelReturns(h) : h \in SeqsUpTo(Hits, MaxHits)}

\* lines 27-28: data = [], nothing walked, nothing written
EnrichStart == [pc |-> "walk", walked |-> <<>>, data |-> <<>>, csv |-> None]

\* lines 38-45: one row for each hit of the image
HitRows(msg_id, category, hits) ==
    [i \in 1..Len(hits) |->
        [message_id |-> msg_id, channel_name |-> "chA",
         detected_class |-> ClassNames[hits[i].cls],
         confidence_score |-> hits[i].conf,
         image_category |-> category]]

\* lines 30-45 for the next image of the listing (its msg_id is its place in
\* the listing): detect_and_classify returns and the hits are appended
ImageDetected(o) ==
    /\ enrich.pc = "walk" /\ Len(enrich.walked) < NumImages
    /\ ~o.raises
    /\ LET msg_id == Len(enrich.walked) + 1
           category == Classify(o.hits)
       IN  enrich' = [enrich EXCEPT
                         !.walked = Append(@, [msg_id |-> msg_id, raised |-> FALSE,
                                               category |-> category, hits |-> o.hits]),
                         !.data = @ \o HitRows(msg_id, category, o.hits)]

\* line 36 with model(image_path) raising in line 9: no handler is around the
\* call, so the exception ends the script, with a non-zero exit status
ImageRaises(o) ==
    /\ enrich.pc = "walk" /\ Len(enrich.walked) < NumImages
    /\ o.raises
    /\ enrich' = [enrich EXCEPT
                     !.pc = "raised",
                     !.walked = Append(@, [msg_id |-> Len(enrich.walked) + 1, raised |-> TRUE,
                                           category |-> None, hits |-> <<>>])]

\* line 47, the listing being through: the rows are written to the CSV file
WriteCsv ==
    /\ enrich.pc = "walk"
    /\ enrich' = [enrich EXCEPT !.pc = "done", !.csv = enrich.data]

\* the script is run again (by the next run of the job)
RunEnrichAgain ==
    /\ enrich.pc \in {"done", "raised"}
    /\ enrich' = EnrichStart

(***************************************************************************)
(* Specifications: each runs one part and leaves the others as they start. *)
(***************************************************************************)
NoLoad == table = {} /\ files = <<>> /\ InitRuns({})
NoJob == job = NewRun(1)
NoClassify == image = <<>> /\ result = NoResult
NoEnrich == enrich = EnrichStart
LoadOnly == UNCHANGED <<jobVars, classifyVars, enrichVars>>
JobOnly == UNCHANGED <<loadVars, classifyVars, enrichVars>>
ClassifyOnly == UNCHANGED <<loadVars, jobVars, enrichVars>>
EnrichOnly == UNCHANGED <<loadVars, jobVars, classifyVars>>

\* one load run over a directory drawn file by file, record by record
InitLoad ==
    /\ table \in PriorTables
    /\ files = <<>>
    /\ InitRuns({1})
    /\ NoJob /\ NoClassify /\ NoEnrich

NextLoad ==
    \/ \E r \in Runs : Start(r) /\ LoadOnly
    \/ \E r \in Runs : VisitAny(r) /\ LoadOnly
    \/ \E r \in Runs : NextRecord(r) /\ LoadOnly
    \/ \E r \in Runs : RecordNotDict(r) /\ LoadOnly
    \/ \E r \in Runs : SkipUnkeyed(r) /\ LoadOnly
    \/ \E r \in Runs : ExecInsert(r) /\ LoadOnly
    \/ \E r \in Runs : CommitFile(r) /\ LoadOnly
    \/ \E r \in Runs : Finish(r) /\ LoadOnly

SpecLoad == InitLoad /\ [][NextLoad]_vars

\* one load run over a listed directory
ListedElements ==
    {Elem(d) : d \in {k \in KeyedDicts : k.channel_name = "chA"}
                     \cup {BadDateDict, [channel_name |-> "chA", message_text |-> "t1"]}}
    \cup {NotADict}

Listings(E, nfiles, nrecs) == SeqsUpTo(FilesOver(E, nrecs), nfiles)

InitFiles ==
    /\ table \in PriorTables
    /\ files \in Listings(ListedElements, NumListed, MaxListedRecs)
    /\ InitRuns({1})
    /\ NoJob /\ NoClassify /\ NoEnrich

NextFiles ==
    \/ \E r \in Runs : Start(r) /\ LoadOnly
    \/ \E r \in Runs : VisitListed(r) /\ LoadOnly
    \/ \E r \in Runs : RecordNotDict(r) /\ LoadOnly
    \/ \E r \in Runs : SkipUnkeyed(r) /\ LoadOnly
    \/ \E r \in Runs : ExecInsert(r) /\ LoadOnly
    \/ \E r \in Runs : CommitFile(r) /\ LoadOnly
    \/ \E r \in Runs : FinishListed(r) /\ LoadOnly

SpecFiles == InitFiles /\ [][NextFiles]_vars

\* two overlapping load runs over the same listed directory
SharedElements ==
    {Elem(d) : d \in {k \in KeyedDicts : k.message_text = "t1" /\ k.channel_name = "chA"}
                     \cup {BadDateDict}}

SharedFiles == {File(FALSE, TRUE, TRUE, s) : s \in SeqsUpTo(SharedElements, MaxSharedRecs)}

InitShared ==
    /\ table = {}
    /\ files \in SeqsUpTo(SharedFiles, NumShared)
    /\ InitRuns({1, 2})
    /\ NoJob /\ NoClassify /\ NoEnrich

NextShared ==
    \/ \E r \in Runs : Start(r) /\ LoadOnly
    \/ \E r \in Runs : VisitListed(r) /\ LoadOnly
    \/ \E r \in Runs : ExecInsert(r) /\ LoadOnly
    \/ \E r \in Runs : DeadlockAbort(r) /\ LoadOnly
    \/ \E r \in Runs : CommitFile(r) /\ LoadOnly
    \/ \E r \in Runs : FinishListed(r) /\ LoadOnly

SpecShared == InitShared /\ [][NextShared]_vars

\* a load run over a listed directory, and a second run over the same
\* directory once the first has ended
StartInTurn(r) == (r = 1 \/ pc[1] = "done") /\ Start(r)

\* two versions of one message, a message with an unreadable date, a message
\* without message_id, a value that is no dict
RerunElements ==
    {Elem(d) : d \in {k \in KeyedDicts : k.message_id = "m1" /\ k.channel_name = "chA"}
                     \cup {BadDateDict, [channel_name |-> "chA", message_text |-> "t1"]}}
    \cup {NotADict}

InitRerun ==
    /\ table \in PriorTables
    /\ files \in Listings(RerunElements, NumRerun, MaxRerunRecs)
    /\ InitRuns({1, 2})
    /\ NoJob /\ NoClassify /\ NoEnrich

NextRerun ==
    \/ \E r \in Runs : StartInTurn(r) /\ LoadOnly
    \/ \E r \in Runs : VisitListed(r) /\ LoadOnly
    \/ \E r \in Runs : RecordNotDict(r) /\ LoadOnly
    \/ \E r \in Runs : SkipUnkeyed(r) /\ LoadOnly
    \/ \E r \in Runs : ExecInsert(r) /\ LoadOnly
    \/ \E r \in Runs : CommitFile(r) /\ LoadOnly
    \/ \E r \in Runs : FinishListed(r) /\ LoadOnly

SpecRerun == InitRerun /\ [][NextRerun]_vars

\* the job
InitJob == NoLoad /\ job = NewRun(1) /\ NoClassify /\ NoEnrich

NextJob ==
    \/ Launch /\ JobOnly
    \/ \E op \in Ops : StartStep(op) /\ JobOnly
    \/ \E op \in Ops : StepSucceeds(op) /\ JobOnly
    \/ \E op \in Ops : StepRaises(op) /\ JobOnly
    \/ \E op \in Ops : RetryStep(op) /\ JobOnly
    \/ \E op \in Ops : SkipStep(op) /\ JobOnly
    \/ EndRun /\ JobOnly
    \/ Retrigger /\ JobOnly

SpecJob == InitJob /\ [][NextJob]_vars

\* the job with every step carried on: a step that is ready is started, an
\* invocation ends (by returning or by raising), a retry that is due is made,
\* and the run is ended once no step is left
JobFairness ==
    /\ WF_vars(Launch /\ JobOnly)
    /\ \A op \in Ops :
          /\ WF_vars(StartStep(op) /\ JobOnly)
          /\ WF_vars((StepSucceeds(op) \/ StepRaises(op)) /\ JobOnly)
          /\ WF_vars(RetryStep(op) /\ JobOnly)
          /\ WF_vars(SkipStep(op) /\ JobOnly)
    /\ WF_vars(EndRun /\ JobOnly)

SpecJobFair == InitJob /\ [][NextJob]_vars /\ JobFairness

\* the classifier
InitClassify ==
    /\ NoLoad /\ NoJob /\ NoEnrich
    /\ image \in SeqsUpTo(Detections, MaxDets)
    /\ result = NoResult

NextClassify ==
    \/ DetectAndClassify /\ ClassifyOnly
    \/ NextImage /\ ClassifyOnly

SpecClassify == InitClassify /\ [][NextClassify]_vars

\* the enrichment script
InitEnrich == NoLoad /\ NoJob /\ NoClassify /\ enrich = EnrichStart

NextEnrich ==
    \/ \E o \in ModelOutcomes : ImageDetected(o) /\ EnrichOnly
    \/ \E o \in ModelOutcomes : ImageRaises(o) /\ EnrichOnly
    \/ WriteCsv /\ EnrichOnly
    \/ RunEnrichAgain /\ EnrichOnly

SpecEnrich == InitEnrich /\ [][NextEnrich]_vars

(***************************************************************************)
(* Properties of the load run.                                             *)
(***************************************************************************)
\* the rows run r's statements see
Visible(r) == table \cup conn[r].pending
RowsOfKey(rows, k) == {x \in rows : Key(x) = k}

\* the step is a cur.execute call of run r: one of the two totals moves
Called(r) == inserted'[r] + skipped'[r] # inserted[r] + skipped[r]

\* parameters that make a canonical record: both key fields, values the
\* driver and the server accept
Canonical(p) ==
    /\ p.message_id # None /\ p.channel_username # None
    /\ p.text # JsonObject
    /\ p.date \in {None, GoodDate}

\* C1: when a record is upserted and the next upsert of the connection is the
\* same record again, the second call changes no row, leaves exactly one row
\* with the record's key, and is counted in skipped (duplicate), not inserted.
C1_SecondUpsertIsDuplicate ==
    [][\A r \in Runs :
         (/\ Called(r)
          /\ Len(calls'[r]) = 2
          /\ calls'[r][1].p = calls'[r][2].p
          /\ calls'[r][1].result \in {"inserted", "duplicate"})
         => /\ calls'[r][2].result = "duplicate"
            /\ Cardinality(RowsOfKey(Visible(r)', Key(calls'[r][2].p))) = 1
            /\ Visible(r)' = Visible(r)
            /\ inserted'[r] = inserted[r]
            /\ skipped'[r] = skipped[r] + 1]_vars

\* a record was inserted and its second upsert reported duplicate
C1_Witness ==
    \E r \in Runs :
       /\ Len(calls[r]) = 2
       /\ calls[r][1].p = calls[r][2].p
       /\ calls[r][1].result = "inserted"
       /\ calls[r][2].result = "duplicate"
       /\ Cardinality(RowsOfKey(Visible(r), Key(calls[r][2].p))) = 1

\* C2: no INSERT is issued for a record without message_id or without
\* channel_username, and no row of the store, committed or not, lacks one.
C2_NoUnkeyedInsert ==
    \A r \in Runs :
       /\ \A i \in 1..Len(calls[r]) :
             calls[r][i].p.message_id # None /\ calls[r][i].p.channel_username # None
       /\ \A x \in Visible(r) : x.message_id # None /\ x.channel_username # None

\* the first record drawn from the first file was consumed with the run still
\* in the file, without a call and with both totals unmoved: it was a record
\* without a key field, dropped by line 87
C2_Witness ==
    \E r \in Runs :
       /\ pc[r] = "recs" /\ fileIdx[r] = 1
       /\ messages[r] = <<>> /\ more[r] = MaxRecs - 1
       /\ calls[r] = <<>> /\ inserted[r] + skipped[r] = 0
       /\ conn[r].status = "idle"

(***************************************************************************)
(* Properties of the job.                                                  *)
(***************************************************************************)
\* C3 as stated: a stage action is invoked at most 3 times (the configured
\* number), and exactly 3 times when the stage ends failed.
C3_ThreeAttempts ==
    \A op \in Ops :
       /\ job.invoked[op] <= MaxRetries
       /\ job.status[op] = "failed" => job.invoked[op] = MaxRetries

\* C3 amended: a stage action is invoked at most max_retries + 1 = 4 times
\* (the first invocation and 3 retries), and a stage ends failed exactly when
\* all 4 invocations have failed.
C3_RetryBudget ==
    \A op \in Ops :
       /\ job.invoked[op] <= MaxRetries + 1
       /\ job.status[op] = "failed" => job.invoked[op] = MaxRetries + 1
       /\ job.status[op] = "up_for_retry" => job.invoked[op] <= MaxRetries

\* a stage has ended failed after its 4 invocations
C3_Witness ==
    \E op \in Ops : job.status[op] = "failed" /\ job.invoked[op] = MaxRetries + 1

\* C4: once a stage has failed terminally, no later stage's action has been
\* or is invoked in the run, and the run does not end in success.
C4_LinearHalt ==
    /\ \A a, b \in Ops :
          (IndexOf(a) < IndexOf(b) /\ job.status[a] = "failed")
          => (job.invoked[b] = 0 /\ job.status[b] \in {"pending", "skipped"})
    /\ (\E a \in Ops : job.status[a] = "failed") => job.state \in {"started", "failure"}
    /\ job.state = "success" => \A a \in Ops : job.status[a] = "succeeded"

\* loading failed terminally and the run ended failed with transforming and
\* enriching never invoked
C4_Witness ==
    /\ job.state = "failure"
    /\ job.status["load_raw_to_postgres"] = "failed"
    /\ job.invoked["run_dbt_transformations"] = 0
    /\ job.invoked["run_yolo_enrichment"] = 0

(***************************************************************************)
(* Properties of runs over a listed directory.                             *)
(***************************************************************************)
\* the records of a file the loop iterates: none of the manifest or of a file
\* that is no JSON, and those before the first value that is no dict
RECURSIVE DictPrefix(_)
DictPrefix(s) ==
    IF s = <<>> \/ ~Head(s).isdict THEN <<>>
    ELSE <<Params(Head(s).d)>> \o DictPrefix(Tail(s))

Iterated(f) == IF f.manifest \/ ~f.valid THEN <<>> ELSE DictPrefix(Messages(f))

RECURSIVE IteratedAll(_)
IteratedAll(fs) == IF fs = <<>> THEN <<>> ELSE Iterated(Head(fs)) \o IteratedAll(Tail(fs))

CountOf(s, P(_)) == Cardinality({i \in 1..Len(s) : P(s[i])})
HasKey(p) == p.message_id # None /\ p.channel_username # None

\* the rows the store held before the run
Prior == {x \in table : x.loaded_at = 0}

\* C5 as stated: at no time do two rows share a key, and no INSERT that meets
\* the other run's row fails: it is a no-op counted as duplicate.
C5_OverlappingRunsSafe ==
    /\ \A x, y \in table : Key(x) = Key(y) => x = y
    /\ \A r \in Runs : \A i \in 1..Len(calls[r]) : calls[r][i].error # "deadlock_detected"

\* a file rejected as a whole: no JSON, or holding a value that is no dict
RejectedFile(f) ==
    /\ ~f.manifest
    /\ ~f.valid \/ \E i \in 1..Len(Messages(f)) : ~Messages(f)[i].isdict

LoadedFile(f) == ~f.manifest /\ ~RejectedFile(f)

\* the canonical records the loop iterates in file f, and their keys
CanonicalRecs(f) ==
    {Iterated(f)[i] : i \in {j \in 1..Len(Iterated(f)) : Canonical(Iterated(f)[j])}}
CanonicalKeys(f) == Keys(CanonicalRecs(f))

\* C6 as stated: when no file is rejected and the same canonical record, whose
\* key the store did not hold, occurs in two different files, the run ends
\* with one insert counted for each new key, every other keyed record counted
\* as skipped, and exactly one row for each new key.
C6_OneInsertPerKey ==
    \A r \in Runs :
       (/\ pc[r] = "done"
        /\ \A i \in 1..Len(files) : ~RejectedFile(files[i])
        /\ \E i, j \in 1..Len(files) :
              /\ i # j
              /\ \E p \in CanonicalRecs(files[i]) \cap CanonicalRecs(files[j]) :
                    Key(p) \notin Keys(Prior))
       => LET seen == IteratedAll(files)
              newKeys == UNION {CanonicalKeys(files[i]) : i \in 1..Len(files)} \ Keys(Prior)
          IN  /\ inserted[r] = Cardinality(newKeys)
              /\ skipped[r] = CountOf(seen, HasKey) - Cardinality(newKeys)
              /\ \A k \in newKeys : Cardinality(RowsOfKey(table, k)) = 1

\* C9 as stated: a call for a canonical record ends inserted or duplicate
\* whatever failed before it, inserted (and stored) when its key is new, and
\* no call removes a row the run has inserted.
C9_FailureIsLocal ==
    [][\A r \in Runs :
         Called(r) =>
            LET c == calls'[r][Len(calls'[r])]
            IN  /\ Canonical(c.p) => c.result \in {"inserted", "duplicate"}
                /\ (Canonical(c.p) /\ Key(c.p) \notin Keys(Visible(r)))
                      => (c.result = "inserted" /\ Key(c.p) \in Keys(Visible(r)'))
                /\ Visible(r) \subseteq Visible(r)']_vars

\* C10 as stated: at the end of the run every row the run has added has the
\* key of a record of a file that was not rejected, and the run ends.
C10_RejectedFileLeavesNothing ==
    \A r \in Runs :
       pc[r] = "done" =>
          \A x \in table \ Prior :
             \E i \in 1..Len(files) :
                /\ LoadedFile(files[i])
                /\ Key(x) \in {Key(Iterated(files[i])[j]) : j \in 1..Len(Iterated(files[i]))}

(***************************************************************************)
(* Properties of the classifier.                                           *)
(***************************************************************************)
Labels == {"promotional", "product_display", "lifestyle", "other"}

HasSubject(D) == \E i \in 1..Len(D) : ClassNames[D[i].cls] = "person"
HasProduct(D) == \E i \in 1..Len(D) : ClassNames[D[i].cls] \in {"bottle", "cup"}

\* C7: the label follows the priority table over has_subject and has_product,
\* and the detections are returned as they came.
C7_PriorityTable ==
    result.called =>
       /\ result.detections = image
       /\ (HasSubject(image) /\ HasProduct(image)) => result.label = "promotional"
       /\ (~HasSubject(image) /\ HasProduct(image)) => result.label = "product_display"
       /\ (HasSubject(image) /\ ~HasProduct(image)) => result.label = "lifestyle"
       /\ (~HasSubject(image) /\ ~HasProduct(image)) => result.label = "other"

\* an image with a person and a product was labelled promotional
C7_Witness ==
    /\ result.called
    /\ HasSubject(image) /\ HasProduct(image)
    /\ result.label = "promotional"

\* the detection lists that are permutations of D
Perms(D) ==
    LET n == Len(D)
        bij == {f \in [1..n -> 1..n] : \A i, j \in 1..n : f[i] = f[j] => i = j}
    IN  {[i \in 1..n |-> D[f[i]]] : f \in bij}

\* C8: the label is one of the four, and every permutation of the detections
\* gets the same label.
C8_TotalAndOrderFree ==
    result.called =>
       /\ result.label \in Labels
       /\ \A P \in Perms(image) : Classify(P) = result.label

\* a list of a bottle and then a person, which has another order, was labelled
C8_Witness ==
    /\ result.called
    /\ Len(image) >= 2
    /\ image[1].cls = 39 /\ image[2].cls = 0
    /\ \E P \in Perms(image) : P # image

(***************************************************************************)
(* Properties of the totals.                                               *)
(***************************************************************************)
\* C11 as stated: at the end of a run every record the loop has read, a
\* record without message_id or channel_username included, is counted once:
\* inserted + skipped is the number of records read.
C11_RejectedCountedAsSkipped ==
    \A r \in Runs :
       pc[r] = "done" => inserted[r] + skipped[r] = Len(IteratedAll(files))

(***************************************************************************)
(* Properties of the enrichment script.                                    *)
(***************************************************************************)
\* the rows of the CSV file for the image with this msg_id
CsvRowsOf(msg_id) == SelectSeq(enrich.csv, LAMBDA row : row.message_id = msg_id)

\* C12 as stated: a detection that raises on one image does not end the
\* script: the script exits with status 0 only, and once it has ended the
\* rows of every image it detected are in the CSV file.
C12_ImageFailureSkipped ==
    /\ enrich.pc # "raised"
    /\ enrich.pc = "done" =>
          \A i \in 1..Len(enrich.walked) :
             ~enrich.walked[i].raised =>
                Len(CsvRowsOf(enrich.walked[i].msg_id)) = Len(enrich.walked[i].hits)

\* C19 as stated: once the script has ended, the CSV file holds for every
\* image it walked a row with the image's category, an image without
\* detections (category other) included.
C19_LabelOfEveryImage ==
    enrich.pc = "done" =>
       \A i \in 1..Len(enrich.walked) :
          \E j \in 1..Len(enrich.csv) :
             /\ enrich.csv[j].message_id = enrich.walked[i].msg_id
             /\ enrich.csv[j].image_category = enrich.walked[i].category

(***************************************************************************)
(* Properties of a second run over the same directory.                     *)
(***************************************************************************)
\* C13 as stated: once the first run has ended, no step of the second run
\* changes the stored rows, and the second run ends with inserted = 0.
C13_RerunChangesNothing ==
    [][/\ pc[1] = "done" => table' = table
       /\ pc'[2] = "done" => inserted'[2] = 0]_vars

(***************************************************************************)
(* Properties of the job's order, retries and end.                         *)
(***************************************************************************)
\* the op after op in the graph, if any
Downstream(op) == {d \in Ops : op \in Upstream(d)}
Executing(op) == job.status[op] \in {"running", "up_for_retry"}

\* C14: an op has been invoked only if the op before it has succeeded, at no
\* time are two ops of the run executing (running or waiting for a retry),
\* and the run is a success only with run_yolo_enrichment succeeded.
C14_StrictOrder ==
    /\ \A op \in Ops :
          job.invoked[op] > 0 => \A u \in Upstream(op) : job.status[u] = "succeeded"
    /\ \A a, b \in Ops : (Executing(a) /\ Executing(b)) => a = b
    /\ job.state = "success" => job.status["run_yolo_enrichment"] = "succeeded"

\* the last op is running with the three before it succeeded
C14_Witness ==
    /\ job.status["run_yolo_enrichment"] = "running"
    /\ \A op \in Ops \ {"run_yolo_enrichment"} :
          job.status[op] = "succeeded" /\ job.invoked[op] > 0

\* C15: an op that has succeeded, on whichever invocation, stays succeeded
\* and is not invoked again in the run; the op after it becomes ready; and a
\* run ends in failure only when some op has failed all its invocations.
C15_RetryThenSuccess ==
    [][/\ \A op \in Ops :
             (job.status[op] = "succeeded" /\ job'.run = job.run)
             => (job'.status[op] = "succeeded" /\ job'.invoked[op] = job.invoked[op])
       /\ \A op \in Ops :
             (job'.status[op] = "succeeded" /\ job.status[op] # "succeeded")
             => \A d \in Downstream(op) :
                   /\ job'.status[d] = "pending"
                   /\ \A u \in Upstream(d) : job'.status[u] = "succeeded"
       /\ \A op \in Ops :
             job'.status[op] = "failed" => job'.invoked[op] = MaxRetries + 1
       /\ job'.state = "failure" => \E op \in Ops : job'.status[op] = "failed"]_vars

\* loading failed twice and succeeded on its third invocation, the next op
\* has been invoked, and the run ended a success
C15_Witness ==
    /\ job.status["load_raw_to_postgres"] = "succeeded"
    /\ job.invoked["load_raw_to_postgres"] = 3
    /\ job.invoked["run_dbt_transformations"] > 0
    /\ job.state = "success"

\* C20: a launched run ends, in success or in failure; a run that has ended
\* invokes nothing more and changes only by being triggered anew, which
\* starts a fresh run: not started, every op pending and never invoked.
C20_EndsAndStartsAnew ==
    /\ [](job.state = "started" => <>(job.state \in {"success", "failure"}))
    /\ [][job.state \in {"success", "failure"}
             => /\ job'.run = job.run + 1
                /\ job'.state = "not_started"
                /\ \A op \in Ops : job'.status[op] = "pending" /\ job'.invoked[op] = 0]_vars
    /\ [][job.state = "not_started" => job'.invoked = job.invoked]_vars

\* the second run, triggered after the first ended, is at its first op with
\* nothing else invoked
C20_Witness ==
    /\ job.run = 2
    /\ job.state = "started"
    /\ job.status["scrape_telegram_data"] = "running"
    /\ job.invoked["scrape_telegram_data"] = 1
    /\ \A op \in Ops \ {"scrape_telegram_data"} :
          job.status[op] = "pending" /\ job.invoked[op] = 0

C17_OneTransactionPerFile ==
    \A r \in Runs : pc[r] = "loop" => conn[r].pending = {}

\* C18 as stated: at the end of a run the inserted total is the number of
\* rows the run has added to the store.
C18_InsertedIsCommitted ==
    \A r \in Runs : pc[r] = "done" => inserted[r] = Cardinality(table \ Prior)

====
